---- MODULE Spec2Model ----
(***************************************************************************)
(* Model of the two scripts of nexs-mcp:                                   *)
(*   scripts/download_nlp_models.py      - dependency gate, two artifact   *)
(*                                         jobs, summary and exit status   *)
(*   examples/integration/python_client.py - NexsMCPClient request builder *)
(*                                                                         *)
(* The pipeline is modelled as one process whose position is pc; the       *)
(* filesystem (fsDirs, fsFiles) survives from one run of main() to the     *)
(* next, everything else is rebuilt by each run.                           *)
(***************************************************************************)
EXTENDS Integers, Sequences, FiniteSets, TLC

VARIABLES
    run,        \* number of the current run of main() (0 before the first)
    pc,         \* position of the pipeline process
    avail,      \* packages that import without ImportError in this run
    probed,     \* number of packages check_dependencies() has probed
    missing,    \* check_dependencies(): the list `missing`
    reports,    \* the "Pacotes faltando" reports printed, each a list of names
    fsDirs,     \* directories that exist under models/
    fsFiles,    \* files that exist, as <<dir, filename>>
    job,        \* index of the artifact job main() is at (0 outside the jobs)
    results,    \* main(): the dict `results`, in insertion order
    writes,     \* keys assigned in `results`, one entry per assignment
    invoked,    \* per artifact: calls of its provider in this run
    created,    \* directories mkdir created in this run
    wrote,      \* artifacts whose provider wrote model.onnx in this run
    raisedAt,   \* per artifact: step and message of the exception that left
                \* its provider (NotRaised if none did)
    details,    \* per artifact: failure details printed for it
    exc,        \* message of the exception in flight ("none" if none)
    ret,        \* value returned by the provider, pending assignment
    summary,    \* RESUMO lines printed, as <<label, success>>
    overall,    \* final aggregate message: "none", "success" or "failed"
    exitCode,   \* process exit status (-1 while running)
    exitedIn,   \* function that called sys.exit ("none", or falls off "__main__")
    request_id, \* NexsMCPClient.request_id
    sent,       \* requests returned by the client so far, oldest first
    calls       \* client calls made so far

pvars == <<run, pc, avail, probed, missing, reports, fsDirs, fsFiles, job,
           results, writes, invoked, created, wrote, raisedAt, details, exc,
           ret, summary, overall, exitCode, exitedIn>>
cvars == <<request_id, sent, calls>>
vars == <<run, pc, avail, probed, missing, reports, fsDirs, fsFiles, job,
          results, writes, invoked, created, wrote, raisedAt, details, exc,
          ret, summary, overall, exitCode, exitedIn, request_id, sent, calls>>

\* ------------------------------------------------------------------ bounds

MaxRuns == 2
MaxCalls == 3

\* --------------------------------------------------------------- utilities

Range(s) == {s[i] : i \in 1..Len(s)}

\* ------------------------------------------------- download_nlp_models.py

Required == <<"torch", "transformers", "optimum">>

Packages == Range(Required)

\* The two artifact jobs of main(), in the order main() runs them.
Artifacts == <<"bert_ner", "distilbert">>

NumArtifacts == Len(Artifacts)

\* variant: both assignments use the key of the first job
ResultKeySame(j) == Artifacts[1]

ResultKey(j) == Artifacts[j]

OutputDir(a) == IF a = "bert_ner" THEN "models/bert-base-ner"
                ELSE "models/distilbert-sentiment"

Label(a) == IF a = "bert_ner" THEN "BERT NER" ELSE "DistilBERT Sentiment"

OnnxFile(a) == <<OutputDir(a), "model.onnx">>

VocabFile(a) == <<OutputDir(a), "vocab.txt">>

\* Exceptions (all subclasses of Exception) the steps of a provider can raise.
ImportErrors == {"ImportError"}
MkdirErrors == {"PermissionError"}
FetchErrors == {"network timeout", "export failed"}

\* __import__(package) raises ImportError
ImportFails(package, ok) == package \notin ok

\* variant: `missing = [package]` instead of missing.append(package)
ProbeOverwrite(miss, package, ok) ==
    IF ImportFails(package, ok) THEN <<package>> ELSE miss

\* for package in required: try __import__ except ImportError: missing.append
ProbeAppend(miss, package, ok) ==
    IF ImportFails(package, ok) THEN Append(miss, package) ELSE miss

\* variant: the gate never trips
GateNeverTrips(miss) == FALSE

\* `if missing:` - truth value of a list
GateTrips(miss) == miss # <<>>

\* variant: mkdir without exist_ok=True
MkdirNoExistOk(dir, dirs) ==
    IF dir \in dirs THEN {"FileExistsError"} ELSE {"ok"} \cup MkdirErrors

\* Path.mkdir(parents=True, exist_ok=True): "ok", or the exception raised.
\* An existing directory is not an error; creating one can fail.
MkdirOutcomes(dir, dirs) ==
    IF dir \in dirs THEN {"ok"} ELSE {"ok"} \cup MkdirErrors

\* the failure details main() and the providers print
FileNotCreated == [kind |-> "file_not_created", msg |-> "model.onnx"]

ErrorProcessing(e) == [kind |-> "error_processing", msg |-> e]

\* detail printed by the else branch of `if onnx_file.exists()`
VerifyDetail == FileNotCreated

\* variant: the except clause prints the verification message
ExceptDetailAsVerify(e) == FileNotCreated

\* detail printed by `except Exception as e`
ExceptDetail(e) == ErrorProcessing(e)

\* onnx_file.exists()
OnnxExists(a, files) == OnnxFile(a) \in files

\* results[key] = value on a dict that keeps insertion order
SetItem(d, k, v) ==
    IF \E i \in 1..Len(d) : d[i].key = k
    THEN [i \in 1..Len(d) |-> IF d[i].key = k THEN [key |-> k, val |-> v] ELSE d[i]]
    ELSE Append(d, [key |-> k, val |-> v])

HasKey(d, k) == \E i \in 1..Len(d) : d[i].key = k

GetItem(d, k) == (CHOOSE i \in 1..Len(d) : d[i].key = k)

Values(d) == [i \in 1..Len(d) |-> d[i].val]

\* variant: any(results.values())
AnyOf(vs) == \E i \in 1..Len(vs) : vs[i]

\* all(results.values())
All(vs) == \A i \in 1..Len(vs) : vs[i]

\* value the except clause of main() stores
ExceptValue == FALSE

\* variant: the call is not inside a try statement
RaiseUncaught == "uncaught"

\* where an exception raised inside a provider lands: the except clause of
\* the try statement around the call
RaiseTarget == "except"

\* position after results[key] has been assigned for job j
AfterJob(j) == IF j < NumArtifacts THEN "call" ELSE "summary"

\* variant: the job index is not advanced
NextJobSame(j) == j

NextJob(j) == IF j < NumArtifacts THEN j + 1 ELSE 0

NotRaised == [step |-> "none", msg |-> "none"]

NoDetails == [a \in Range(Artifacts) |-> {}]

InitPipeline ==
    /\ run = 0
    /\ pc = "idle"
    /\ avail = Packages
    /\ probed = 0
    /\ missing = <<>>
    /\ reports = <<>>
    /\ fsDirs = {}
    /\ fsFiles = {}
    /\ job = 0
    /\ results = <<>>
    /\ writes = <<>>
    /\ invoked = [a \in Range(Artifacts) |-> 0]
    /\ created = {}
    /\ wrote = {}
    /\ raisedAt = [a \in Range(Artifacts) |-> NotRaised]
    /\ details = NoDetails
    /\ exc = "none"
    /\ ret = FALSE
    /\ summary = <<>>
    /\ overall = "none"
    /\ exitCode = -1
    /\ exitedIn = "none"

\* python3 download_nlp_models.py: a new process; only the filesystem is kept.
\* main() prints the banner and calls check_dependencies().
Main ==
    /\ pc \in {"idle", "exited"}
    /\ run < MaxRuns
    /\ run' = run + 1
    /\ \E ok \in SUBSET Packages : avail' = ok
    /\ pc' = "probe"
    /\ probed' = 0
    /\ missing' = <<>>
    /\ reports' = <<>>
    /\ job' = 0
    /\ results' = <<>>
    /\ writes' = <<>>
    /\ invoked' = [a \in Range(Artifacts) |-> 0]
    /\ created' = {}
    /\ wrote' = {}
    /\ raisedAt' = [a \in Range(Artifacts) |-> NotRaised]
    /\ details' = NoDetails
    /\ exc' = "none"
    /\ ret' = FALSE
    /\ summary' = <<>>
    /\ overall' = "none"
    /\ exitCode' = -1
    /\ exitedIn' = "none"
    /\ UNCHANGED <<fsDirs, fsFiles, request_id, sent, calls>>

\* one iteration of `for package in required`
Probe ==
    /\ pc = "probe"
    /\ probed < Len(Required)
    /\ probed' = probed + 1
    /\ missing' = ProbeAppend(missing, Required[probed + 1], avail)
    /\ UNCHANGED <<run, pc, avail, reports, fsDirs, fsFiles, job, results,
                   writes, invoked, created, wrote, raisedAt, details, exc,
                   ret, summary, overall, exitCode, exitedIn, request_id,
                   sent, calls>>

\* `if missing:` taken: print the report, sys.exit(1)
GateFail ==
    /\ pc = "probe"
    /\ probed = Len(Required)
    /\ GateTrips(missing)
    /\ reports' = Append(reports, missing)
    /\ exitCode' = 1
    /\ exitedIn' = "check_dependencies"
    /\ pc' = "exited"
    /\ UNCHANGED <<run, avail, probed, missing, fsDirs, fsFiles, job, results,
                   writes, invoked, created, wrote, raisedAt, details, exc,
                   ret, summary, overall, request_id, sent, calls>>

\* check_dependencies() returns; main() sets results = {} and enters the
\* first try statement
GatePass ==
    /\ pc = "probe"
    /\ probed = Len(Required)
    /\ ~GateTrips(missing)
    /\ results' = <<>>
    /\ job' = 1
    /\ pc' = "call"
    /\ UNCHANGED <<run, avail, probed, missing, reports, fsDirs, fsFiles,
                   writes, invoked, created, wrote, raisedAt, details, exc,
                   ret, summary, overall, exitCode, exitedIn, request_id,
                   sent, calls>>

\* the raise of exception e at step `step` of the provider of job `job`
Raise(e, step) ==
    /\ exc' = e
    /\ raisedAt' = [raisedAt EXCEPT ![Artifacts[job]] = [step |-> step, msg |-> e]]
    /\ pc' = RaiseTarget

\* The two providers (download_and_convert_bert_ner, lines 27-64, and
\* download_and_convert_distilbert_sentiment, lines 66-104) have the same
\* steps and differ in model name and output directory only; the actions
\* below are the steps of the provider of Artifacts[job].

\* results[key] = provider(): the call, and the imports that open the provider
CallProvider ==
    /\ pc = "call"
    /\ invoked' = [invoked EXCEPT ![Artifacts[job]] = @ + 1]
    /\ \/ /\ pc' = "mkdir"
          /\ UNCHANGED <<exc, raisedAt>>
       \/ \E e \in ImportErrors : Raise(e, "import")
    /\ UNCHANGED <<run, avail, probed, missing, reports, fsDirs, fsFiles, job,
                   results, writes, created, wrote, details, ret, summary,
                   overall, exitCode, exitedIn, request_id, sent, calls>>

\* Path(output_dir).mkdir(parents=True, exist_ok=True)
Mkdir ==
    /\ pc = "mkdir"
    /\ \E o \in MkdirOutcomes(OutputDir(Artifacts[job]), fsDirs) :
          \/ /\ o = "ok"
             /\ fsDirs' = fsDirs \cup {OutputDir(Artifacts[job])}
             /\ created' = created \cup ({OutputDir(Artifacts[job])} \ fsDirs)
             /\ pc' = "tokenizer"
             /\ UNCHANGED <<exc, raisedAt>>
          \/ /\ o # "ok"
             /\ Raise(o, "mkdir")
             /\ UNCHANGED <<fsDirs, created>>
    /\ UNCHANGED <<run, avail, probed, missing, reports, fsFiles, job, results,
                   writes, invoked, wrote, details, ret, summary, overall,
                   exitCode, exitedIn, request_id, sent, calls>>

\* AutoTokenizer.from_pretrained(...); tokenizer.save_pretrained(output_dir)
\* An opaque provider step: it raises, or returns having written vocab.txt
\* or not.
FetchTokenizer ==
    /\ pc = "tokenizer"
    /\ \/ /\ \E v \in BOOLEAN :
                fsFiles' = IF v THEN fsFiles \cup {VocabFile(Artifacts[job])}
                           ELSE fsFiles
          /\ pc' = "model"
          /\ UNCHANGED <<exc, raisedAt>>
       \/ /\ \E e \in FetchErrors : Raise(e, "tokenizer")
          /\ UNCHANGED fsFiles
    /\ UNCHANGED <<run, avail, probed, missing, reports, fsDirs, job, results,
                   writes, invoked, created, wrote, details, ret, summary,
                   overall, exitCode, exitedIn, request_id, sent, calls>>

\* ORTModelFor...from_pretrained(...); model.save_pretrained(output_dir)
\* An opaque provider step: it raises, or returns having written model.onnx
\* or not.
FetchModel ==
    /\ pc = "model"
    /\ \/ /\ \E w \in BOOLEAN :
                /\ fsFiles' = IF w THEN fsFiles \cup {OnnxFile(Artifacts[job])}
                              ELSE fsFiles
                /\ wrote' = IF w THEN wrote \cup {Artifacts[job]} ELSE wrote
          /\ pc' = "verify"
          /\ UNCHANGED <<exc, raisedAt>>
       \/ /\ \E e \in FetchErrors : Raise(e, "model")
          /\ UNCHANGED <<fsFiles, wrote>>
    /\ UNCHANGED <<run, avail, probed, missing, reports, fsDirs, job, results,
                   writes, invoked, created, details, ret, summary, overall,
                   exitCode, exitedIn, request_id, sent, calls>>

\* `if onnx_file.exists(): ... return True  else: print(...); return False`
Verify ==
    /\ pc = "verify"
    /\ IF OnnxExists(Artifacts[job], fsFiles)
       THEN /\ ret' = TRUE
            /\ UNCHANGED details
       ELSE /\ ret' = FALSE
            /\ details' = [details EXCEPT ![Artifacts[job]] = @ \cup {VerifyDetail}]
    /\ pc' = "assign"
    /\ UNCHANGED <<run, avail, probed, missing, reports, fsDirs, fsFiles, job,
                   results, writes, invoked, created, wrote, raisedAt, exc,
                   summary, overall, exitCode, exitedIn, request_id, sent,
                   calls>>

\* results[key] = <value returned by the provider>
Assign ==
    /\ pc = "assign"
    /\ results' = SetItem(results, ResultKey(job), ret)
    /\ writes' = Append(writes, ResultKey(job))
    /\ pc' = AfterJob(job)
    /\ job' = NextJob(job)
    /\ UNCHANGED <<run, avail, probed, missing, reports, fsDirs, fsFiles,
                   invoked, created, wrote, raisedAt, details, exc, ret,
                   summary, overall, exitCode, exitedIn, request_id, sent,
                   calls>>

\* except Exception as e: print(f"Erro ao processar ...: {e}"); results[key] = False
Except ==
    /\ pc = "except"
    /\ details' = [details EXCEPT ![Artifacts[job]] = @ \cup {ExceptDetail(exc)}]
    /\ results' = SetItem(results, ResultKey(job), ExceptValue)
    /\ writes' = Append(writes, ResultKey(job))
    /\ exc' = "none"
    /\ pc' = AfterJob(job)
    /\ job' = NextJob(job)
    /\ UNCHANGED <<run, avail, probed, missing, reports, fsDirs, fsFiles,
                   invoked, created, wrote, raisedAt, ret, summary, overall,
                   exitCode, exitedIn, request_id, sent, calls>>

\* RESUMO: one line per artifact, then `if all(results.values())`: the
\* success text and the end of main() (status 0), else sys.exit(1).
\* results['bert_ner'] and results['distilbert'] are read by key.
Summary ==
    /\ pc = "summary"
    /\ \A j \in 1..NumArtifacts : HasKey(results, Artifacts[j])
    /\ summary' = [j \in 1..NumArtifacts |->
                     <<Label(Artifacts[j]),
                       results[GetItem(results, Artifacts[j])].val>>]
    /\ IF All(Values(results))
       THEN /\ overall' = "success"
            /\ exitCode' = 0
            /\ exitedIn' = "__main__"
       ELSE /\ overall' = "failed"
            /\ exitCode' = 1
            /\ exitedIn' = "main"
    /\ pc' = "exited"
    /\ UNCHANGED <<run, avail, probed, missing, reports, fsDirs, fsFiles, job,
                   results, writes, invoked, created, wrote, raisedAt, details,
                   exc, ret, request_id, sent, calls>>

\* --------------------------------------------------------- python_client.py

\* A method name is the sequence of its "/"-separated segments:
\* "tools/call" is <<"tools", "call">>, "notifications" is <<"notifications">>.
Methods ==
    { <<"ping">>,
      <<"resources", "list">>,
      <<"notifications">>,
      <<"notifications", "initialized">>,
      <<"notifications", "cancelled">> }

MethodInitialize == <<"initialize">>

MethodToolsCall == <<"tools", "call">>

MethodToolsList == <<"tools", "list">>

MethodInitialized == <<"notifications", "initialized">>

Tools == {"create_element", "list_elements"}

\* method.startswith("notifications/"): the first segment is "notifications"
\* and a "/" follows it
IsNotification(method) == Len(method) >= 2 /\ method[1] = "notifications"

\* `params or {}`: None and the empty dict both give {}
ParamsOrEmpty(params) == IF params \in {"None", "{}"} THEN "{}" ELSE params

\* variant: _next_id() without the increment
NextIdStuck(id) == id

\* _next_id(): the value request_id has after self.request_id += 1
NextId(id) == id + 1

\* the dict _send_request returns: built with "id", which is deleted again
\* for a notification method
Request(id, method, params) ==
    IF IsNotification(method)
    THEN [jsonrpc |-> "2.0", method |-> method, params |-> ParamsOrEmpty(params)]
    ELSE [jsonrpc |-> "2.0", id |-> id, method |-> method,
          params |-> ParamsOrEmpty(params)]

\* the literal dict initialize() builds without _send_request
InitializedNotification ==
    [jsonrpc |-> "2.0", method |-> MethodInitialized]

InitClient ==
    /\ request_id = 0
    /\ sent = <<>>
    /\ calls = 0

\* client._send_request(method, params)
SendRequest ==
    /\ calls < MaxCalls
    /\ \E m \in Methods, p \in {"None", "args"} :
          /\ request_id' = NextId(request_id)
          /\ sent' = Append(sent, Request(NextId(request_id), m, p))
    /\ calls' = calls + 1
    /\ UNCHANGED pvars

\* client.initialize()
Initialize ==
    /\ calls < MaxCalls
    /\ request_id' = NextId(request_id)
    /\ sent' = sent \o <<Request(NextId(request_id), MethodInitialize, "init"),
                          InitializedNotification>>
    /\ calls' = calls + 1
    /\ UNCHANGED pvars

\* client.call_tool(tool_name, arguments)
CallTool ==
    /\ calls < MaxCalls
    /\ \E t \in Tools :
          /\ request_id' = NextId(request_id)
          /\ sent' = Append(sent, Request(NextId(request_id), MethodToolsCall, t))
    /\ calls' = calls + 1
    /\ UNCHANGED pvars

\* client.list_tools()
ListTools ==
    /\ calls < MaxCalls
    /\ request_id' = NextId(request_id)
    /\ sent' = Append(sent, Request(NextId(request_id), MethodToolsList, "None"))
    /\ calls' = calls + 1
    /\ UNCHANGED pvars

Init == InitPipeline /\ InitClient

Next ==
    \/ Main
    \/ Probe
    \/ GateFail
    \/ GatePass
    \/ CallProvider
    \/ Mkdir
    \/ FetchTokenizer
    \/ FetchModel
    \/ Verify
    \/ Assign
    \/ Except
    \/ Summary

Spec == Init /\ [][Next]_vars

ClientNext ==
    \/ SendRequest
    \/ Initialize
    \/ CallTool
    \/ ListTools

ClientSpec == Init /\ [][ClientNext]_vars

\* ------------------------------------------------------------------ claims

\* the run got past check_dependencies() and main() is over
Completed == pc = "exited" /\ exitedIn # "check_dependencies"

\* value recorded for artifact a (FALSE while there is none)
Outcome(a) == HasKey(results, a) /\ results[GetItem(results, a)].val

Raised(a) == raisedAt[a] # NotRaised

Unavailable == SelectSeq(Required, LAMBDA p : p \notin avail)

\* C1 (Isolation): when the provider of bert_ner raises, the exception does
\* not leave main(), the outcome of bert_ner is recorded as failure, and by
\* the time the summary is reached the provider of distilbert has been
\* invoked exactly once (and never more than once).
C1_Isolation ==
    Raised("bert_ner") =>
        /\ pc # "uncaught"
        /\ HasKey(results, "bert_ner") => ~Outcome("bert_ner")
        /\ invoked["distilbert"] <= 1
        /\ pc \in {"summary", "exited"} =>
              /\ HasKey(results, "bert_ner")
              /\ ~Outcome("bert_ner")
              /\ invoked["distilbert"] = 1

C1_Witness ==
    /\ Completed
    /\ Raised("bert_ner")
    /\ ~Outcome("bert_ner")
    /\ invoked["distilbert"] = 1
    /\ Outcome("distilbert")

\* C2 (Completeness): a run past the gate reaches the summary with exactly
\* one outcome per artifact, in configuration order, each key assigned
\* exactly once; an outcome, once recorded, is not changed in that run.
C2_Completeness ==
    /\ [](pc = "summary" \/ Completed =>
            /\ Len(results) = NumArtifacts
            /\ \A j \in 1..NumArtifacts : results[j].key = Artifacts[j]
            /\ writes = Artifacts)
    /\ [][run' = run =>
            /\ Len(results') >= Len(results)
            /\ \A i \in 1..Len(results) : results'[i] = results[i]]_vars

C2_Witness ==
    /\ Completed
    /\ Len(results) = 2
    /\ results[1] = [key |-> "bert_ner", val |-> FALSE]
    /\ results[2] = [key |-> "distilbert", val |-> TRUE]
    /\ ~Raised("bert_ner")

\* C3 (Fail-fast gate): in a run where a required package is unavailable,
\* no provider is invoked, no directory is created, no outcome and no
\* summary is produced, the process never gets past check_dependencies(),
\* and when it has exited it did so in check_dependencies() with status 1;
\* once every package is probed the only step is that exit.
C3_FailFast ==
    /\ [](pc # "idle" /\ Unavailable # <<>> =>
            /\ pc \in {"probe", "exited"}
            /\ \A a \in Range(Artifacts) : invoked[a] = 0
            /\ created = {}
            /\ results = <<>> /\ writes = <<>>
            /\ summary = <<>> /\ overall = "none"
            /\ pc = "exited" => exitedIn = "check_dependencies" /\ exitCode = 1)
    /\ [][pc = "probe" /\ probed = Len(Required) /\ Unavailable # <<>> =>
            pc' = "exited" /\ exitCode' = 1 /\ fsDirs' = fsDirs]_vars

C3_Witness ==
    /\ pc = "exited"
    /\ exitedIn = "check_dependencies"
    /\ exitCode = 1
    /\ "optimum" \notin avail /\ "torch" \in avail
    /\ fsDirs # {}
    /\ created = {}

\* C4 (Verification gating): an outcome is recorded as success only if the
\* provider wrote model.onnx in this run; stated for every filesystem the
\* run can start from, including the one an earlier run left behind.
C4_VerificationGating ==
    \A a \in Range(Artifacts) :
        HasKey(results, a) /\ ~Raised(a) /\ a \notin wrote => ~Outcome(a)

\* C5 (Aggregate AND and exit status): when the process has exited, overall
\* success is reported iff every outcome is true, the status is 0 iff overall
\* success is reported, and it is 1 otherwise (an artifact failed or the gate
\* failed).
C5_AggregateExit ==
    pc = "exited" =>
        /\ exitCode \in {0, 1}
        /\ exitedIn = "check_dependencies" => exitCode = 1 /\ overall = "none"
        /\ exitedIn # "check_dependencies" =>
              /\ Len(results) = NumArtifacts
              /\ overall = "success" <=> \A i \in 1..Len(results) : results[i].val
              /\ overall \in {"success", "failed"}
        /\ exitCode = 0 <=> overall = "success"

C5_Witness ==
    /\ Completed
    /\ Outcome("bert_ner")
    /\ ~Outcome("distilbert")
    /\ exitCode = 1
    /\ overall = "failed"

\* C6 (MissingDependency): check_dependencies() exits only after probing
\* every required package; it then has printed exactly one report, listing
\* exactly the unavailable packages in the order of `required`; when none is
\* unavailable nothing is reported and the run goes on.
C6_MissingReport ==
    /\ Len(reports) <= 1
    /\ reports # <<>> => pc = "exited" /\ exitedIn = "check_dependencies"
    /\ exitedIn = "check_dependencies" =>
          /\ probed = Len(Required)
          /\ reports = <<Unavailable>>
          /\ Unavailable # <<>>
    /\ pc = "probe" /\ probed = Len(Required) => missing = Unavailable
    /\ pc \notin {"idle", "probe"} /\ Unavailable = <<>> =>
          reports = <<>> /\ exitedIn # "check_dependencies"

C6_Witness ==
    /\ pc = "exited"
    /\ reports = << <<"torch", "optimum">> >>
    /\ probed = 3

\* C7 (Idempotent directory creation): the output directory exists whenever
\* a fetch/convert step or the verification of a job runs; a directory that
\* was there before the run started never makes mkdir raise; and a recorded
\* outcome is true exactly when the provider did not raise and model.onnx
\* exists.
C7_IdempotentMkdir ==
    /\ pc \in {"tokenizer", "model", "verify"} =>
          OutputDir(Artifacts[job]) \in fsDirs
    /\ \A a \in Range(Artifacts) :
          /\ OutputDir(a) \in fsDirs \ created => raisedAt[a].step # "mkdir"
          /\ HasKey(results, a) =>
                (Outcome(a) <=> ~Raised(a) /\ OnnxExists(a, fsFiles))

C7_Witness ==
    /\ run = 2
    /\ Completed
    /\ OutputDir("bert_ner") \in fsDirs \ created
    /\ invoked["bert_ner"] = 1
    /\ Outcome("bert_ner")

\* C8 (distinct details): for a finished job, a provider that completed
\* with model.onnx absent gives failure with exactly the 'file not created'
\* detail; a provider that raised gives failure with exactly the 'error
\* while processing' detail carrying the raised message; a success gives no
\* detail.
C8_DistinctDetails ==
    \A a \in Range(Artifacts) :
        /\ Cardinality(details[a]) <= 1
        /\ HasKey(results, a) =>
              /\ ~Raised(a) /\ ~OnnxExists(a, fsFiles) =>
                    ~Outcome(a) /\ details[a] = {FileNotCreated}
              /\ Raised(a) =>
                    ~Outcome(a) /\ details[a] = {ErrorProcessing(raisedAt[a].msg)}
              /\ Outcome(a) => details[a] = {}

C8_Witness ==
    /\ Completed
    /\ details["bert_ner"] = {FileNotCreated}
    /\ details["distilbert"] = {ErrorProcessing("export failed")}

\* C9 (Strict sequential ordering): a job is started (provider invoked,
\* directory created) only when the outcome of every earlier job is
\* recorded; at most one job is in progress; each provider is invoked at
\* most once per run; the summary is printed only when every outcome is
\* recorded.
C9_Sequential ==
    /\ \A j \in 1..NumArtifacts :
          /\ invoked[Artifacts[j]] <= 1
          /\ (invoked[Artifacts[j]] > 0 \/ OutputDir(Artifacts[j]) \in created) =>
                \A k \in 1..(j - 1) : HasKey(results, Artifacts[k])
          /\ HasKey(results, Artifacts[j]) => invoked[Artifacts[j]] = 1
    /\ Cardinality({a \in Range(Artifacts) :
                       invoked[a] > 0 /\ ~HasKey(results, a)}) <= 1
    /\ summary # <<>> => \A a \in Range(Artifacts) : HasKey(results, a)

C9_Witness ==
    /\ pc = "model"
    /\ job = 2
    /\ HasKey(results, "bert_ner")
    /\ ~HasKey(results, "distilbert")
    /\ OutputDir("distilbert") \in created

\* C10 (request ids): every returned request whose method does not start
\* with "notifications/" has an id >= 1 greater than the id of every earlier
\* request; every request whose method starts with "notifications/" has no
\* id; every call advances the counter by one, a notification sent through
\* _send_request included.
C10_RequestIds ==
    /\ request_id = calls
    /\ \A i \in 1..Len(sent) :
          IF IsNotification(sent[i].method)
          THEN "id" \notin DOMAIN sent[i]
          ELSE /\ "id" \in DOMAIN sent[i]
               /\ sent[i].id >= 1
               /\ sent[i].id <= request_id
               /\ \A k \in 1..(i - 1) :
                     "id" \in DOMAIN sent[k] => sent[k].id < sent[i].id

C10_Witness ==
    /\ Len(sent) = 3
    /\ "id" \in DOMAIN sent[1] /\ sent[1].id = 1
    /\ "id" \notin DOMAIN sent[2] /\ sent[2].method = <<"notifications", "cancelled">>
    /\ "id" \in DOMAIN sent[3] /\ sent[3].id = 3

====
